---------------------------- MODULE Spec2Model ----------------------------
(***************************************************************************)
(* NBA draft ROI analysis: the metric pipeline.                            *)
(*                                                                         *)
(*   value_metrics.py          NBAStats_cleaned.csv                        *)
(*                               -> NBAStats_with_value_metrics.csv        *)
(*   team_draft_efficiency.py  NBAStats_with_value_metrics.csv             *)
(*                               -> team_draft_efficiency_report.csv       *)
(*                                                                         *)
(* A table is a sequence of rows (records).  A float64 cell is an extended *)
(* rational [num, den]: den > 0 is the finite value num/den in lowest      *)
(* terms, 1/0 and -1/0 are +inf and -inf, 0/0 is NaN (pandas' null).       *)
(* PTS, REB, AST and career_length hold whole numbers, kept as integers.   *)
(* A missing string cell (read_csv turns an empty field into NaN) is NA.   *)
(***************************************************************************)
EXTENDS Integers, Sequences, FiniteSets

VARIABLES
    cleaned,          \* NBAStats_cleaned.csv: the table data_cleaning.py writes
    cleaned_exists,   \* whether NBAStats_cleaned.csv has been written
    df_loaded,        \* the table the running script loaded, as it is now
    printed,          \* what the running script has shown of its analysis
    metrics_file,     \* NBAStats_with_value_metrics.csv: [exists, rows]
    df_enhanced,      \* team_draft_efficiency.main: df_enhanced
    team_stats,       \* analyze_team_draft_efficiency: team_stats (all teams)
    qualified_teams,  \* analyze_team_draft_efficiency: returned table
    drafted,          \* analyze_team_draft_efficiency: returned drafted rows
    report_file,      \* team_draft_efficiency_report.csv: [exists, rows]
    pc,               \* position in the run of the two scripts
    missing,          \* columns NBAStats_cleaned.csv does not have
    error             \* the exception main's except clause printed

\* df_enhanced, team_stats, qualified_teams and drafted hold what the last run
\* that reached them computed, so that the tables of two runs can be compared
vars == <<cleaned, metrics_file, df_enhanced, team_stats, qualified_teams,
          drafted, report_file, pc, missing, error, cleaned_exists, df_loaded,
          printed>>

-----------------------------------------------------------------------------
(* float64 cells *)

NaN == [num |-> 0, den |-> 0]
PosInf == [num |-> 1, den |-> 0]
NegInf == [num |-> -1, den |-> 0]
NA == "<NA>"

Abs(n) == IF n < 0 THEN -n ELSE n

Sign(n) == IF n < 0 THEN -1 ELSE IF n > 0 THEN 1 ELSE 0

RECURSIVE GCD(_, _)
GCD(a, b) == IF b = 0 THEN a ELSE GCD(b, a % b)

\* the finite value n/d (d # 0) in lowest terms with a positive denominator
Norm(n, d) ==
    LET g == GCD(Abs(n), Abs(d))
        s == IF d < 0 THEN -1 ELSE 1
    IN  [num |-> (s * n) \div g, den |-> (s * d) \div g]

F(n) == [num |-> n, den |-> 1]

isna(x) == x = NaN
notna(x) == x # NaN
IsFinite(x) == x.den # 0
IsInf(x) == x.den = 0 /\ x.num # 0

\* a > b on float64: every comparison with NaN is False
FGt(a, b) ==
    IF isna(a) \/ isna(b) THEN FALSE
    ELSE IF IsInf(a) \/ IsInf(b)
         THEN (IF IsInf(a) THEN a.num ELSE 0) > (IF IsInf(b) THEN b.num ELSE 0)
         ELSE a.num * b.den > b.num * a.den

FGe(a, b) ==
    IF isna(a) \/ isna(b) THEN FALSE
    ELSE IF IsInf(a) \/ IsInf(b)
         THEN (IF IsInf(a) THEN a.num ELSE 0) >= (IF IsInf(b) THEN b.num ELSE 0)
         ELSE a.num * b.den >= b.num * a.den

FLe(a, b) == FGe(b, a)

\* a * b on float64
FMul(a, b) ==
    IF isna(a) \/ isna(b) THEN NaN
    ELSE IF IsInf(a) \/ IsInf(b)
         THEN (IF a.num = 0 \/ b.num = 0 THEN NaN
               ELSE [num |-> Sign(a.num) * Sign(b.num), den |-> 0])
         ELSE Norm(a.num * b.num, a.den * b.den)

\* a - b on float64
FSub(a, b) ==
    IF isna(a) \/ isna(b) THEN NaN
    ELSE IF IsInf(a) THEN (IF b = a THEN NaN ELSE a)
    ELSE IF IsInf(b) THEN [num |-> -b.num, den |-> 0]
    ELSE Norm(a.num * b.den - b.num * a.den, a.den * b.den)

\* a + b on float64, over the least common denominator
FAdd(a, b) ==
    IF isna(a) \/ isna(b) THEN NaN
    ELSE IF IsInf(a) THEN (IF IsInf(b) /\ b # a THEN NaN ELSE a)
    ELSE IF IsInf(b) THEN b
    ELSE LET l == (a.den \div GCD(a.den, b.den)) * b.den
         IN  Norm(a.num * (l \div a.den) + b.num * (l \div b.den), l)

\* a / b on float64 as numpy divides: x/0 is +-inf, 0/0 is NaN, no exception
FDiv(a, b) ==
    IF isna(a) \/ isna(b) THEN NaN
    ELSE IF IsInf(b) THEN (IF IsInf(a) THEN NaN ELSE F(0))
    ELSE IF b.num = 0
         THEN (IF a.num = 0 THEN NaN ELSE [num |-> Sign(a.num), den |-> 0])
    ELSE IF IsInf(a) THEN [num |-> a.num * Sign(b.num), den |-> 0]
    ELSE Norm(a.num * b.den, a.den * b.num)

\* quotient and remainder of n * 10^k by d (d > 0), one decimal digit at a time
RECURSIVE ScaledDiv(_, _, _)
ScaledDiv(n, d, k) ==
    IF k = 0 THEN [q |-> n \div d, r |-> n % d]
    ELSE LET p == ScaledDiv(n, d, k - 1)
         IN  [q |-> p.q * 10 + (p.r * 10) \div d, r |-> (p.r * 10) % d]

\* n * 10^k / d (d > 0) rounded to the nearest integer, a tie going to the
\* even one
RoundHalfEven(n, d, k) ==
    LET p == ScaledDiv(n, d, k)
    IN  IF 2 * p.r < d THEN p.q
        ELSE IF 2 * p.r > d THEN p.q + 1
        ELSE IF p.q % 2 = 0 THEN p.q ELSE p.q + 1

\* Series.round(decimals): NaN and +-inf are left as they are
Round(x, decimals) ==
    IF ~IsFinite(x) THEN x
    ELSE LET scale == IF decimals = 1 THEN 10 ELSE IF decimals = 2 THEN 100 ELSE 1000
         IN  Norm(RoundHalfEven(x.num, x.den, decimals), scale)

-----------------------------------------------------------------------------
(* program constants *)

QualityValue == 50
EliteValue == 200
GemValue == 100
GemPick == 15
MinPicks == 10
BaselinePick == 100

(* bounds of the model *)

\* rows read after the opening roster of an input table
MaxRows == 2

-----------------------------------------------------------------------------
(* input tables *)

Row(first, team, dn, pts, reb, ast, cl) ==
    [PLAYER_FIRST_NAME |-> first, TEAM_NAME |-> team, DRAFT_YEAR |-> F(2003),
     DRAFT_NUMBER |-> dn,
     PTS |-> pts, REB |-> reb, AST |-> ast, career_length |-> cl]

\* the row r drafted in another year, or with no draft year
WithYear(r, year) == [r EXCEPT !.DRAFT_YEAR = year]

PtsVals == {0, 19, 20, 49, 99, 199}
RebVals == {0, 1, 5}
AstVals == {0, 5}
CareerVals == {-1, 0, 1, 10}
DraftVals == {NaN} \cup {F(n) : n \in {0, 1, 5, 6, 14, 15, 16, 30, 31, 99, 100, 101}}

\* one player, every combination of the values above
PlayerRows ==
    {Row("Al", "Hawks", dn, pts, reb, ast, cl) :
        dn \in DraftVals, pts \in PtsVals, reb \in RebVals, ast \in AstVals,
        cl \in CareerVals}

\* the kinds of row a team table is made of
SolidPick == Row("Al", "Hawks", F(5), 10, 0, 0, 5)
LimitedPick == WithYear(Row("Al", "Hawks", F(31), 49, 0, 0, 1), F(2010))
TeamRows ==
    << SolidPick,
       LimitedPick,
       Row("Al", "Hawks", F(16), 20, 0, 0, 10),
       Row("Al", "Hawks", F(15), 10, 0, 0, 10),
       Row("Al", "Hawks", F(16), 99, 0, 0, 1),
       Row("Al", "Hawks", F(100), 10, 0, 0, 0),
       Row(NA, "Hawks", F(5), 10, 0, 0, 5),
       WithYear(Row("Al", "Hawks", NaN, 20, 0, 0, 10), F(1990)),
       Row("Al", "Celtics", F(5), 10, 0, 0, 5),
       WithYear(Row("Al", "Celtics", F(5), 10, 0, 0, 5), NaN),
       Row("Al", "Celtics", F(0), 0, 0, 0, 1),
       Row("Al", NA, F(5), 0, 0, 0, 5) >>

\* a roster of n Hawks picks: two solid contributors, the rest limited
Roster(n) == [i \in 1..n |-> IF i <= 2 THEN SolidPick ELSE LimitedPick]

Rosters == {<<>>, Roster(MinPicks - 1), Roster(MinPicks)}

\* the tables of at most n rows drawn from kinds, rows of an earlier kind
\* first, as sequences of positions in kinds
RECURSIVE SeqsUpTo(_, _)
SeqsUpTo(kinds, n) ==
    IF n = 0 THEN {<<>>}
    ELSE LET shorter == SeqsUpTo(kinds, n - 1)
         IN  shorter \cup
                 {Append(p[1], p[2]) :
                     p \in {q \in shorter \X DOMAIN kinds :
                                q[1] = <<>> \/ q[1][Len(q[1])] <= q[2]}}

InputTables ==
    {<<r>> : r \in PlayerRows}
        \cup {roster \o [k \in DOMAIN rest |-> TeamRows[rest[k]]] :
                  roster \in Rosters, rest \in SeqsUpTo(TeamRows, MaxRows)}

\* columns a cleaned file may lack, and the tables that come without them
AbsentColumns == {"PTS", "REB", "DRAFT_NUMBER", "TEAM_NAME"}

IncompleteTables ==
    {<<SolidPick>>, <<Row("Al", "Hawks", NaN, 20, 0, 0, 10)>>, Roster(MinPicks)}

NoFile == [exists |-> FALSE, rows |-> <<>>]
File(rows) == [exists |-> TRUE, rows |-> rows]

\* a table indexed by team name with no row
NoTeams == [t \in {} |-> NaN]

-----------------------------------------------------------------------------
(* value_metrics.py *)

\* faulty variant: the assists are left out of the sum
ValueScoreNoAssists(r) == (r.PTS + r.REB) * r.career_length

ValueScore(r) == (r.PTS + r.REB + r.AST) * r.career_length

\* faulty variant: the mask checks only that the draft number is present
valid_draft_mask_notna(r) == notna(r.DRAFT_NUMBER)

valid_draft_mask(r) == notna(r.DRAFT_NUMBER) /\ FGt(r.DRAFT_NUMBER, F(0))

DraftValueRatio(r, value_score) ==
    IF valid_draft_mask(r) THEN FDiv(F(value_score), r.DRAFT_NUMBER) ELSE NaN

calculate_value_metrics(df) ==
    [i \in DOMAIN df |->
        LET value_score == ValueScore(df[i])
        IN  [PLAYER_FIRST_NAME |-> df[i].PLAYER_FIRST_NAME,
             TEAM_NAME |-> df[i].TEAM_NAME,
             DRAFT_YEAR |-> df[i].DRAFT_YEAR,
             DRAFT_NUMBER |-> df[i].DRAFT_NUMBER,
             PTS |-> df[i].PTS, REB |-> df[i].REB, AST |-> df[i].AST,
             career_length |-> df[i].career_length,
             value_score |-> value_score,
             draft_value_ratio |-> DraftValueRatio(df[i], value_score)]]

-----------------------------------------------------------------------------
(* team_draft_efficiency.py: calculate_per_season_roi *)

\* np.where computes the quotient for every row and keeps it where the
\* condition holds
RoiPerSeason(r) ==
    IF r.career_length > 0 /\ notna(r.DRAFT_NUMBER)
    THEN FDiv(F(r.value_score), FMul(F(r.career_length), r.DRAFT_NUMBER))
    ELSE NaN

ExpectedValue(r) ==
    IF notna(r.DRAFT_NUMBER) THEN FSub(F(BaselinePick), r.DRAFT_NUMBER) ELSE F(0)

\* faulty variant: a zero baseline passes the guard
EfficiencyScoreGe(value_score, expected_value) ==
    IF FGe(expected_value, F(0)) THEN FDiv(F(value_score), expected_value) ELSE NaN

EfficiencyScore(value_score, expected_value) ==
    IF FGt(expected_value, F(0)) THEN FDiv(F(value_score), expected_value) ELSE NaN

\* faulty variant: pick 5 falls out of the first bucket
categorize_pick_lt(draft_num) ==
    IF isna(draft_num) THEN "Undrafted"
    ELSE IF ~FGe(draft_num, F(5)) THEN "Lottery (1-5)"
    ELSE IF FLe(draft_num, F(14)) THEN "Lottery (6-14)"
    ELSE IF FLe(draft_num, F(30)) THEN "First Round (15-30)"
    ELSE "Second Round (31+)"

categorize_pick(draft_num) ==
    IF isna(draft_num) THEN "Undrafted"
    ELSE IF FLe(draft_num, F(5)) THEN "Lottery (1-5)"
    ELSE IF FLe(draft_num, F(14)) THEN "Lottery (6-14)"
    ELSE IF FLe(draft_num, F(30)) THEN "First Round (15-30)"
    ELSE "Second Round (31+)"

\* faulty variant: a value of exactly 200 is not elite
quality_tier_gt(value_score) ==
    IF value_score > 200 THEN "Elite (200+)"
    ELSE IF value_score >= 100 THEN "High Quality (100-199)"
    ELSE IF value_score >= 50 THEN "Solid Contributor (50-99)"
    ELSE IF value_score >= 20 THEN "Role Player (20-49)"
    ELSE "Limited Impact (0-19)"

quality_tier(value_score) ==
    IF value_score >= 200 THEN "Elite (200+)"
    ELSE IF value_score >= 100 THEN "High Quality (100-199)"
    ELSE IF value_score >= 50 THEN "Solid Contributor (50-99)"
    ELSE IF value_score >= 20 THEN "Role Player (20-49)"
    ELSE "Limited Impact (0-19)"

calculate_per_season_roi(df) ==
    [i \in DOMAIN df |->
        LET expected_value == ExpectedValue(df[i])
        IN  [PLAYER_FIRST_NAME |-> df[i].PLAYER_FIRST_NAME,
             TEAM_NAME |-> df[i].TEAM_NAME,
             DRAFT_YEAR |-> df[i].DRAFT_YEAR,
             DRAFT_NUMBER |-> df[i].DRAFT_NUMBER,
             PTS |-> df[i].PTS, REB |-> df[i].REB, AST |-> df[i].AST,
             career_length |-> df[i].career_length,
             value_score |-> df[i].value_score,
             draft_value_ratio |-> df[i].draft_value_ratio,
             roi_per_season |-> RoiPerSeason(df[i]),
             expected_value |-> expected_value,
             efficiency_score |-> EfficiencyScore(df[i].value_score, expected_value),
             draft_category |-> categorize_pick(df[i].DRAFT_NUMBER),
             quality_tier |-> quality_tier(df[i].value_score)]]

-----------------------------------------------------------------------------
(* team_draft_efficiency.py: analyze_team_draft_efficiency *)

\* faulty variant: the drafted filter keeps every row
IsDraftedAny(r) == TRUE

IsDrafted(r) == notna(r.DRAFT_NUMBER)

\* the rows of group t of df.groupby('TEAM_NAME'); a null key forms no group
Group(df, t) == {i \in DOMAIN df : df[i].TEAM_NAME = t}

GroupKeys(df) == {df[i].TEAM_NAME : i \in DOMAIN df} \ {NA}

\* agg 'count' of a column: the cells of the group that are not null
CountFirstName(df, t) ==
    Cardinality({i \in Group(df, t) : df[i].PLAYER_FIRST_NAME # NA})

IsQualityPick(r) == r.value_score >= QualityValue

IsElitePick(r) == r.value_score >= EliteValue

\* faulty variant: pick 15 counts as a late pick
IsLateRoundGemGe(r) == FGe(r.DRAFT_NUMBER, F(GemPick)) /\ r.value_score >= GemValue

IsLateRoundGem(r) == FGt(r.DRAFT_NUMBER, F(GemPick)) /\ r.value_score >= GemValue

\* df[mask].groupby('TEAM_NAME').size(), mapped on the team index, fillna(0)
QualityPicks(df, t) == Cardinality({i \in Group(df, t) : IsQualityPick(df[i])})

ElitePicks(df, t) == Cardinality({i \in Group(df, t) : IsElitePick(df[i])})

LateRoundGems(df, t) == Cardinality({i \in Group(df, t) : IsLateRoundGem(df[i])})

\* faulty variant: the rate is stored as computed, not rounded
PickRateExact(picks, total_picks) == FMul(FDiv(F(picks), F(total_picks)), F(100))

PickRate(picks, total_picks) ==
    Round(FMul(FDiv(F(picks), F(total_picks)), F(100)), 1)

\* the cells of a float column of df
RoiColumn(df) == [i \in DOMAIN df |-> df[i].roi_per_season]

EfficiencyColumn(df) == [i \in DOMAIN df |-> df[i].efficiency_score]

YearColumn(df) == [i \in DOMAIN df |-> df[i].DRAFT_YEAR]

\* faulty variant: agg 'first', the first cell in row order that is not null
First(col, idx) ==
    LET nn == {i \in idx : notna(col[i])}
    IN  IF nn = {} THEN NaN
        ELSE col[CHOOSE i \in nn : \A j \in nn : i <= j]

\* agg 'min': the least of the cells that are not null; NaN when there is none
Min(col, idx) ==
    LET nn == {i \in idx : notna(col[i])}
    IN  IF nn = {} THEN NaN
        ELSE CHOOSE x \in {col[i] : i \in nn} : \A j \in nn : FLe(x, col[j])

\* agg 'max'
Max(col, idx) ==
    LET nn == {i \in idx : notna(col[i])}
    IN  IF nn = {} THEN NaN
        ELSE CHOOSE x \in {col[i] : i \in nn} : \A j \in nn : FGe(x, col[j])

\* faulty variant: the span leaves out the + 1
DraftSpanExclusive(first_draft_year, last_draft_year) ==
    FSub(last_draft_year, first_draft_year)

\* team_stats['last_draft_year'] - team_stats['first_draft_year'] + 1
DraftSpan(first_draft_year, last_draft_year) ==
    FAdd(FSub(last_draft_year, first_draft_year), F(1))

RECURSIVE FSum(_, _)
FSum(col, idx) ==
    IF idx = {} THEN F(0)
    ELSE LET i == CHOOSE j \in idx : TRUE
         IN  FAdd(col[i], FSum(col, idx \ {i}))

\* faulty variant: a null cell counts as 0 (fillna(0) before the mean)
MeanNullAsZero(col, idx) ==
    FDiv(FSum([i \in DOMAIN col |-> IF isna(col[i]) THEN F(0) ELSE col[i]], idx),
         F(Cardinality(idx)))

\* agg 'mean': the sum of the cells that are not null over their number;
\* NaN when the group has none
Mean(col, idx) ==
    LET nn == {i \in idx : notna(col[i])}
    IN  FDiv(FSum(col, nn), F(Cardinality(nn)))

\* the k-th smallest of the cells col[i], i in idx
Kth(col, idx, k) ==
    CHOOSE x \in {col[i] : i \in idx} :
        /\ Cardinality({i \in idx : FGt(x, col[i])}) < k
        /\ Cardinality({i \in idx : FGe(x, col[i])}) >= k

\* agg 'median': the middle cell of the cells that are not null, or the mean
\* of the two middle ones; NaN when the group has none
Median(col, idx) ==
    LET nn == {i \in idx : notna(col[i])}
        n == Cardinality(nn)
    IN  IF n = 0 THEN NaN
        ELSE IF n % 2 = 1 THEN Kth(col, nn, (n + 1) \div 2)
        ELSE FDiv(FAdd(Kth(col, nn, n \div 2), Kth(col, nn, n \div 2 + 1)), F(2))

RECURSIVE SumValue(_, _)
SumValue(df, idx) ==
    IF idx = {} THEN 0
    ELSE LET i == CHOOSE j \in idx : TRUE
         IN  df[i].value_score + SumValue(df, idx \ {i})

RECURSIVE SumSquares(_, _)
SumSquares(df, idx) ==
    IF idx = {} THEN 0
    ELSE LET i == CHOOSE j \in idx : TRUE
         IN  df[i].value_score * df[i].value_score + SumSquares(df, idx \ {i})

\* faulty variant: ddof=0, the squared deviations over the number of rows
PopulationVariance(df, t) ==
    LET n == Cardinality(Group(df, t))
        total == SumValue(df, Group(df, t))
    IN  FDiv(F(n * SumSquares(df, Group(df, t)) - total * total), F(n * n))

\* the variance under agg 'std' (ddof=1): the squared deviations of
\* value_score from the group mean over the number of rows less one; 0/0 = NaN
\* for a group of one row
SampleVariance(df, t) ==
    LET n == Cardinality(Group(df, t))
        total == SumValue(df, Group(df, t))
    IN  FDiv(F(n * SumSquares(df, Group(df, t)) - total * total), F(n * (n - 1)))

\* the square root of a float cell, kept by its radicand (the root of NaN is
\* NaN); the three-decimal rounding of the root is not carried out
Sqrt(x) == [root_of |-> x]

TeamStats(df) ==
    [t \in GroupKeys(df) |->
        LET total_picks == CountFirstName(df, t)
            quality_picks == QualityPicks(df, t)
            elite_picks == ElitePicks(df, t)
            first_draft_year == Round(Min(YearColumn(df), Group(df, t)), 3)
            last_draft_year == Round(Max(YearColumn(df), Group(df, t)), 3)
        IN  [total_picks |-> total_picks,
             first_draft_year |-> first_draft_year,
             last_draft_year |-> last_draft_year,
             draft_span_years |-> DraftSpan(first_draft_year, last_draft_year),
             value_std |-> Sqrt(SampleVariance(df, t)),
             avg_roi_per_season |-> Round(Mean(RoiColumn(df), Group(df, t)), 3),
             median_roi_per_season |-> Round(Median(RoiColumn(df), Group(df, t)), 3),
             avg_efficiency |-> Round(Mean(EfficiencyColumn(df), Group(df, t)), 3),
             median_efficiency |->
                 Round(Median(EfficiencyColumn(df), Group(df, t)), 3),
             quality_picks |-> quality_picks,
             elite_picks |-> elite_picks,
             quality_pick_rate |-> PickRate(quality_picks, total_picks),
             elite_pick_rate |-> PickRate(elite_picks, total_picks),
             late_round_gems |-> LateRoundGems(df, t)]]

\* faulty variant: a team needs more than the minimum
IsQualifiedGt(team) == team.total_picks > MinPicks

IsQualified(team) == team.total_picks >= MinPicks

\* faulty variant: the sample-size filter is left out
QualifiedTeamsAll(stats) == stats

QualifiedTeams(stats) ==
    [t \in {u \in DOMAIN stats : IsQualified(stats[u])} |-> stats[t]]

\* returns None when no row is drafted, else (qualified_teams, drafted)
analyze_team_draft_efficiency(df) ==
    LET picked == SelectSeq(df, IsDrafted)
        stats == TeamStats(picked)
    IN  IF Len(picked) = 0
        THEN [none |-> TRUE, team_stats |-> NoTeams, qualified_teams |-> NoTeams,
              drafted |-> picked]
        ELSE [none |-> FALSE, team_stats |-> stats,
              qualified_teams |-> QualifiedTeams(stats), drafted |-> picked]

-----------------------------------------------------------------------------
(* ranked views and percentile thresholds *)

ValueColumn(df) == [i \in DOMAIN df |-> F(df[i].value_score)]

RatioColumn(df) == [i \in DOMAIN df |-> df[i].draft_value_ratio]

\* faulty variant: keep='last', of equal cells the later row goes first
RECURSIVE NLargestKeepLast(_, _, _)
NLargestKeepLast(n, col, idx) ==
    IF n = 0 \/ idx = {} THEN <<>>
    ELSE LET top == CHOOSE i \in idx : \A j \in idx :
                        \/ FGt(col[i], col[j])
                        \/ isna(col[j]) /\ notna(col[i])
                        \/ (col[i] = col[j] /\ i >= j)
         IN  <<top>> \o NLargestKeepLast(n - 1, col, idx \ {top})

\* DataFrame.nlargest(n, column), keep='first': the rows of idx with the n
\* largest cells, largest first, equal cells in row order, null cells last
RECURSIVE NLargest(_, _, _)
NLargest(n, col, idx) ==
    IF n = 0 \/ idx = {} THEN <<>>
    ELSE LET top == CHOOSE i \in idx : \A j \in idx :
                        \/ FGt(col[i], col[j])
                        \/ isna(col[j]) /\ notna(col[i])
                        \/ (col[i] = col[j] /\ i <= j)
         IN  <<top>> \o NLargest(n - 1, col, idx \ {top})

\* DataFrame.nsmallest(n, column), keep='first'
RECURSIVE NSmallest(_, _, _)
NSmallest(n, col, idx) ==
    IF n = 0 \/ idx = {} THEN <<>>
    ELSE LET top == CHOOSE i \in idx : \A j \in idx :
                        \/ FGt(col[j], col[i])
                        \/ isna(col[j]) /\ notna(col[i])
                        \/ (col[i] = col[j] /\ i <= j)
         IN  <<top>> \o NSmallest(n - 1, col, idx \ {top})

\* Series.quantile(qn/qd), linear interpolation, over the cells of idx (none
\* of them null): position (n - 1) * q in the sorted cells
Quantile(col, idx, qn, qd) ==
    LET n == Cardinality(idx)
        lo == ((n - 1) * qn) \div qd
        frac == Norm(((n - 1) * qn) % qd, qd)
        a == Kth(col, idx, lo + 1)
    IN  IF frac = F(0) THEN a
        ELSE FAdd(a, FMul(FSub(Kth(col, idx, lo + 2), a), frac))

\* the rows with a draft_value_ratio: analyze_value_metrics' drafted_players
HasRatio(df) == {i \in DOMAIN df : notna(df[i].draft_value_ratio)}

\* faulty variant: the threshold is taken over the late picks alone
StealThresholdLatePicks(df) ==
    LET late == {i \in HasRatio(df) : FGe(df[i].DRAFT_NUMBER, F(30))}
    IN  IF late = {} THEN PosInf ELSE Quantile(RatioColumn(df), late, 4, 5)

\* drafted_players['draft_value_ratio'].quantile(0.8)
StealThreshold(df) == Quantile(RatioColumn(df), HasRatio(df), 4, 5)

\* drafted_players['draft_value_ratio'].quantile(0.2)
BustThreshold(df) == Quantile(RatioColumn(df), HasRatio(df), 1, 5)

Steals(df) ==
    {i \in HasRatio(df) :
        /\ FGe(df[i].DRAFT_NUMBER, F(30))
        /\ FGe(df[i].draft_value_ratio, StealThreshold(df))}

Busts(df) ==
    {i \in HasRatio(df) :
        /\ FLe(df[i].DRAFT_NUMBER, F(10))
        /\ FLe(df[i].draft_value_ratio, BustThreshold(df))}

-----------------------------------------------------------------------------
(* dashboard.py *)

\* faulty variant: the quotient is kept only for a positive draft number
EnhancedRoiPerSeasonGuarded(r) ==
    IF r.career_length > 0 /\ valid_draft_mask(r)
    THEN FDiv(F(r.value_score), FMul(F(r.career_length), r.DRAFT_NUMBER))
    ELSE NaN

EnhancedRoiPerSeason(r) ==
    IF r.career_length > 0 /\ notna(r.DRAFT_NUMBER)
    THEN FDiv(F(r.value_score), FMul(F(r.career_length), r.DRAFT_NUMBER))
    ELSE NaN

enhanced_categorize_pick(draft_num) ==
    IF isna(draft_num) THEN "Undrafted"
    ELSE IF FLe(draft_num, F(5)) THEN "Lottery (1-5)"
    ELSE IF FLe(draft_num, F(14)) THEN "Lottery (6-14)"
    ELSE IF FLe(draft_num, F(30)) THEN "First Round (15-30)"
    ELSE "Second Round (31+)"

enhanced_quality_tier(value_score) ==
    IF value_score >= 200 THEN "Elite (200+)"
    ELSE IF value_score >= 100 THEN "High Quality (100-199)"
    ELSE IF value_score >= 50 THEN "Solid Contributor (50-99)"
    ELSE IF value_score >= 20 THEN "Role Player (20-49)"
    ELSE "Limited Impact (0-19)"

calculate_enhanced_metrics(table) ==
    [i \in DOMAIN table |->
        [PLAYER_FIRST_NAME |-> table[i].PLAYER_FIRST_NAME,
         TEAM_NAME |-> table[i].TEAM_NAME,
         DRAFT_YEAR |-> table[i].DRAFT_YEAR,
         DRAFT_NUMBER |-> table[i].DRAFT_NUMBER,
         PTS |-> table[i].PTS, REB |-> table[i].REB, AST |-> table[i].AST,
         career_length |-> table[i].career_length,
         value_score |-> table[i].value_score,
         draft_value_ratio |-> table[i].draft_value_ratio,
         roi_per_season |-> EnhancedRoiPerSeason(table[i]),
         draft_category |-> enhanced_categorize_pick(table[i].DRAFT_NUMBER),
         quality_tier |-> enhanced_quality_tier(table[i].value_score)]]

\* the ends the year slider can be set to, between the least and the largest
\* draft year of the table
SliderYears == {2003, 2005, 2010}

\* the rows of table the year filter keeps; a row without a year fails both
\* comparisons
YearFilter(table, lo, hi) ==
    {i \in DOMAIN table :
        FGe(table[i].DRAFT_YEAR, F(lo)) /\ FLe(table[i].DRAFT_YEAR, F(hi))}

\* the selections of the year filter: the whole table when no row has a year
FilterSelections(table) ==
    LET years == YearColumn(table)
        first == Min(years, DOMAIN table)
        last == Max(years, DOMAIN table)
    IN  IF isna(first) THEN {DOMAIN table}
        ELSE {YearFilter(table, range[1], range[2]) :
                 range \in {r \in SliderYears \X SliderYears :
                               first.num <= r[1] /\ r[1] <= r[2] /\ r[2] <= last.num}}

\* f"{len(drafted_players)/len(df_filtered)*100:.1f}% of dataset": Python's /
\* raises ZeroDivisionError on a zero divisor
DraftedShare(drafted_players, df_filtered) ==
    Round(FMul(FDiv(F(drafted_players), F(df_filtered)), F(100)), 1)

-----------------------------------------------------------------------------
(* the runs of the scripts *)

NoError == [kind |-> "none", names |-> {}]
KeyError(names) == [kind |-> "KeyError", names |-> names]
TypeError == [kind |-> "TypeError", names |-> {}]
IndexError == [kind |-> "IndexError", names |-> {}]
ZeroDivisionError == [kind |-> "ZeroDivisionError", names |-> {}]
FileNotFoundError(name) == [kind |-> "FileNotFoundError", names |-> {name}]

NoOutput == [kind |-> "none"]

Init ==
    /\ cleaned \in InputTables
    /\ cleaned_exists = FALSE
    /\ missing \in SUBSET AbsentColumns
    /\ missing # {} => cleaned \in IncompleteTables
    /\ metrics_file = NoFile
    /\ df_loaded = <<>>
    /\ df_enhanced = <<>>
    /\ team_stats = NoTeams
    /\ qualified_teams = NoTeams
    /\ drafted = <<>>
    /\ report_file = NoFile
    /\ printed = NoOutput
    /\ pc = "start"
    /\ error = NoError

\* the columns the two metric scripts read, in the order they read them
MetricColumns == <<"PTS", "REB", "AST", "career_length", "DRAFT_NUMBER">>

\* df[column] on an absent column raises KeyError(column): the first one read
FirstMissing ==
    MetricColumns[CHOOSE i \in DOMAIN MetricColumns :
        /\ MetricColumns[i] \in missing
        /\ \A j \in 1..(i - 1) : MetricColumns[j] \notin missing]

\* faulty variant: to_csv(output_file, mode='a') adds to the file
WriteMetricsAppend(old, rows) == File(old.rows \o rows)

\* df_with_metrics.to_csv(output_file, index=False) replaces the file
WriteMetrics(old, rows) == File(rows)

\* faulty variant: the function adds its columns to the table it is given
AfterCallInPlace(passed, returned) == returned

\* the caller's table after a call of a function that starts with df.copy()
\* (or only reads its argument): as it was passed
AfterCall(passed, returned) == passed

\* faulty variant: a script goes on without its input file
InputFoundAlways(exists) == TRUE

\* pd.read_csv(file) raises FileNotFoundError unless the file exists
InputFound(exists) == exists

\* the rows nlargest(10, ...) lists
TopPlayers == 10

\* the rows nlargest(5, ...) lists
TopTeams == 5

\* analyze_value_metrics: the two top-10 lists, the steals and the busts (the
\* last two only when some row has a draft_value_ratio)
analyze_value_metrics(df_metrics) ==
    [kind |-> "value_metrics",
     top_value_players |->
         NLargest(TopPlayers, ValueColumn(df_metrics), DOMAIN df_metrics),
     top_roi_players |->
         NLargest(TopPlayers, RatioColumn(df_metrics), HasRatio(df_metrics)),
     steals |-> Steals(df_metrics),
     busts |-> Busts(df_metrics)]

\* data_cleaning.py main: write NBAStats_cleaned.csv
DataCleaningMain ==
    /\ pc = "start"
    /\ cleaned_exists' = TRUE
    /\ UNCHANGED <<cleaned, metrics_file, df_loaded, df_enhanced, team_stats,
                   qualified_teams, drafted, report_file, printed, pc, missing,
                   error>>

\* value_metrics.py main: compute the metrics, print the analysis and save
\* the table
ValueMetricsMain ==
    /\ pc = "start"
    /\ IF ~InputFound(cleaned_exists)
       THEN /\ error' = FileNotFoundError("NBAStats_cleaned.csv")
            /\ pc' = "failed"
            /\ UNCHANGED <<metrics_file, df_loaded, printed>>
       ELSE IF \E i \in DOMAIN MetricColumns : MetricColumns[i] \in missing
       THEN /\ error' = KeyError({FirstMissing})
            /\ pc' = "failed"
            /\ df_loaded' = cleaned
            /\ UNCHANGED <<metrics_file, printed>>
       ELSE LET df_with_metrics == calculate_value_metrics(cleaned)
            IN  /\ df_loaded' = AfterCall(cleaned, df_with_metrics)
                /\ printed' = analyze_value_metrics(df_with_metrics)
                /\ metrics_file' = WriteMetrics(metrics_file, df_with_metrics)
                /\ pc' = "metrics"
                /\ UNCHANGED error
    /\ UNCHANGED <<cleaned, cleaned_exists, df_enhanced, team_stats,
                   qualified_teams, drafted, report_file, missing>>

\* the table run_analysis.py main computes in place
RunAnalysisTable ==
    [i \in DOMAIN cleaned |->
        LET value_score == ValueScore(cleaned[i])
        IN  [PLAYER_FIRST_NAME |-> cleaned[i].PLAYER_FIRST_NAME,
             TEAM_NAME |-> cleaned[i].TEAM_NAME,
             DRAFT_YEAR |-> cleaned[i].DRAFT_YEAR,
             DRAFT_NUMBER |-> cleaned[i].DRAFT_NUMBER,
             PTS |-> cleaned[i].PTS, REB |-> cleaned[i].REB,
             AST |-> cleaned[i].AST,
             career_length |-> cleaned[i].career_length,
             value_score |-> value_score,
             draft_value_ratio |-> DraftValueRatio(cleaned[i], value_score)]]

\* run_analysis.py main: the same two columns added to its own df, the two
\* top-10 lists, same file
RunAnalysisMain ==
    /\ pc = "start"
    /\ IF ~InputFound(cleaned_exists)
       THEN /\ error' = FileNotFoundError("NBAStats_cleaned.csv")
            /\ pc' = "failed"
            /\ UNCHANGED <<metrics_file, df_loaded, printed>>
       ELSE IF \E i \in DOMAIN MetricColumns : MetricColumns[i] \in missing
       THEN /\ error' = KeyError({FirstMissing})
            /\ pc' = "failed"
            /\ df_loaded' = cleaned
            /\ UNCHANGED <<metrics_file, printed>>
       ELSE /\ df_loaded' = RunAnalysisTable
            /\ printed' =
                  [kind |-> "run_analysis",
                   top_players |->
                       NLargest(TopPlayers, ValueColumn(RunAnalysisTable),
                                DOMAIN RunAnalysisTable),
                   top_roi |->
                       NLargest(TopPlayers, RatioColumn(RunAnalysisTable),
                                HasRatio(RunAnalysisTable))]
            /\ metrics_file' = WriteMetrics(metrics_file, RunAnalysisTable)
            /\ pc' = "metrics"
            /\ UNCHANGED error
    /\ UNCHANGED <<cleaned, cleaned_exists, df_enhanced, team_stats,
                   qualified_teams, drafted, report_file, missing>>

\* team_draft_efficiency.py main: read the metrics table, add the columns
TeamMainEnhance ==
    /\ pc \in {"start", "metrics"}
    /\ IF ~InputFound(metrics_file.exists)
       THEN /\ error' = FileNotFoundError("NBAStats_with_value_metrics.csv")
            /\ pc' = "failed"
            /\ UNCHANGED <<df_loaded, df_enhanced, printed>>
       ELSE /\ df_enhanced' = calculate_per_season_roi(metrics_file.rows)
            /\ df_loaded' = AfterCall(metrics_file.rows, df_enhanced')
            /\ printed' = NoOutput
            /\ pc' = "enhanced"
            /\ UNCHANGED error
    /\ UNCHANGED <<cleaned, cleaned_exists, metrics_file, team_stats,
                   qualified_teams, drafted, report_file, missing>>

\* main: team_stats, drafted_players = analyze_team_draft_efficiency(...);
\* unpacking None raises TypeError, groupby('TEAM_NAME') without the column
\* raises KeyError, and main's except prints the error
TeamMainAnalyze ==
    /\ pc = "enhanced"
    /\ LET res == analyze_team_draft_efficiency(df_enhanced)
       IN  IF res.none \/ "TEAM_NAME" \in missing
           THEN /\ error' = IF res.none THEN TypeError
                                        ELSE KeyError({"TEAM_NAME"})
                /\ pc' = "failed"
                /\ UNCHANGED <<team_stats, qualified_teams, drafted>>
           ELSE /\ team_stats' = res.team_stats
                /\ qualified_teams' = res.qualified_teams
                /\ drafted' = res.drafted
                /\ pc' = "analyzed"
                /\ UNCHANGED error
    /\ df_enhanced' = AfterCall(df_enhanced, drafted')
    /\ UNCHANGED <<cleaned, cleaned_exists, metrics_file, df_loaded, report_file,
                   printed, missing>>

\* the team index of a grouped table: groupby sorts its keys
TeamOrder == <<"Celtics", "Hawks">>

RankedTeams(teams) == {k \in DOMAIN TeamOrder : TeamOrder[k] \in DOMAIN teams}

RoiByTeam(teams) ==
    [k \in RankedTeams(teams) |-> teams[TeamOrder[k]].avg_roi_per_season]

QualityRateByTeam(teams) ==
    [k \in RankedTeams(teams) |-> teams[TeamOrder[k]].quality_pick_rate]

GemsByTeam(teams) ==
    [k \in RankedTeams(teams) |-> F(teams[TeamOrder[k]].late_round_gems)]

\* value_std by its radicand: the root keeps the order
StdByTeam(teams) ==
    [k \in RankedTeams(teams) |-> teams[TeamOrder[k]].value_std.root_of]

\* the best second round picks: DRAFT_NUMBER > 30 and value_score >= 150
LateSuccesses(drafted_players) ==
    {i \in DOMAIN drafted_players :
        /\ FGt(drafted_players[i].DRAFT_NUMBER, F(30))
        /\ drafted_players[i].value_score >= 150}

\* generate_draft_efficiency_report on a table with at least one team
generate_draft_efficiency_report(teams, drafted_players) ==
    [kind |-> "report",
     top_roi |-> NLargest(TopTeams, RoiByTeam(teams), RankedTeams(teams)),
     top_quality |->
         NLargest(TopTeams, QualityRateByTeam(teams), RankedTeams(teams)),
     top_gems |-> NLargest(TopTeams, GemsByTeam(teams), RankedTeams(teams)),
     late_successes |->
         NLargest(TopTeams, ValueColumn(drafted_players),
                  LateSuccesses(drafted_players)),
     best_overall |-> NLargest(1, RoiByTeam(teams), RankedTeams(teams))[1],
     most_consistent |-> NSmallest(1, StdByTeam(teams), RankedTeams(teams))[1],
     best_late_round |-> NLargest(1, GemsByTeam(teams), RankedTeams(teams))[1]]

\* main: the dashboard and the report; nlargest(1, ...).index[0] raises
\* IndexError on a table with no row
TeamMainReport ==
    /\ pc = "analyzed"
    /\ IF DOMAIN qualified_teams = {}
       THEN error' = IndexError /\ pc' = "failed" /\ UNCHANGED printed
       ELSE /\ printed' = generate_draft_efficiency_report(qualified_teams, drafted)
            /\ pc' = "reported"
            /\ UNCHANGED error
    /\ qualified_teams' = AfterCall(qualified_teams, printed')
    /\ drafted' = AfterCall(drafted, printed')
    /\ UNCHANGED <<cleaned, cleaned_exists, metrics_file, df_loaded, df_enhanced,
                   team_stats, report_file, missing>>

\* main: team_stats.to_csv("team_draft_efficiency_report.csv")
TeamMainSave ==
    /\ pc = "reported"
    /\ report_file' = File(qualified_teams)
    /\ pc' = "done"
    /\ UNCHANGED <<cleaned, cleaned_exists, metrics_file, df_loaded, df_enhanced,
                   team_stats, qualified_teams, drafted, printed, missing,
                   error>>

\* dashboard.py main up to the executive summary, for one setting of the
\* year filter; an exception ends the page
DashboardMain ==
    /\ pc \in {"start", "metrics"}
    /\ IF ~InputFound(metrics_file.exists)
       THEN /\ error' = FileNotFoundError("NBAStats_with_value_metrics.csv")
            /\ pc' = "failed"
            /\ UNCHANGED <<df_loaded, printed>>
       ELSE \E df_filtered \in FilterSelections(metrics_file.rows) :
               LET shown == calculate_enhanced_metrics(metrics_file.rows)
                   drafted_players ==
                       {i \in df_filtered :
                           notna(metrics_file.rows[i].draft_value_ratio)}
               IN  /\ df_loaded' = AfterCall(metrics_file.rows, shown)
                   /\ pc' = "dashboard"
                   /\ IF df_filtered = {}
                      THEN /\ error' = ZeroDivisionError
                           /\ printed' =
                                 [kind |-> "dashboard", df_enhanced |-> shown,
                                  total |-> 0, drafted |-> 0, share |-> NaN]
                      ELSE /\ UNCHANGED error
                           /\ printed' =
                                 [kind |-> "dashboard", df_enhanced |-> shown,
                                  total |-> Cardinality(df_filtered),
                                  drafted |-> Cardinality(drafted_players),
                                  share |-> DraftedShare(Cardinality(drafted_players),
                                                         Cardinality(df_filtered))]
    /\ UNCHANGED <<cleaned, cleaned_exists, metrics_file, df_enhanced,
                   team_stats, qualified_teams, drafted, report_file, missing>>

\* the script has ended and the next one can be started; the files it wrote
\* are still there
Restart ==
    /\ pc \in {"done", "failed", "dashboard"}
    /\ pc' = "start"
    /\ error' = NoError
    /\ df_loaded' = <<>>
    /\ printed' = NoOutput
    /\ UNCHANGED <<cleaned, cleaned_exists, metrics_file, df_enhanced,
                   team_stats, qualified_teams, drafted, report_file, missing>>

Next ==
    \/ DataCleaningMain
    \/ ValueMetricsMain
    \/ RunAnalysisMain
    \/ TeamMainEnhance
    \/ TeamMainAnalyze
    \/ TeamMainReport
    \/ TeamMainSave
    \/ DashboardMain
    \/ Restart

Spec == Init /\ [][Next]_vars

-----------------------------------------------------------------------------
(* properties *)

MetricRows == metrics_file.rows

NonNegativeInputs(r) ==
    r.PTS >= 0 /\ r.REB >= 0 /\ r.AST >= 0 /\ r.career_length >= 0

\* x is the finite quotient n / d of two integers
IsQuotient(x, n, d) == IsFinite(x) /\ d # 0 /\ x.num * d = n * x.den

IsNegative(x) == x.num < 0

\* C1: every row of the saved metrics table has value_score =
\* (PTS + REB + AST) * career_length of its input row; the score is >= 0 when
\* the inputs are non-negative and 0 for a career of length 0.
C1_ValueScore ==
    \A i \in DOMAIN MetricRows :
        LET r == cleaned[i]
            v == MetricRows[i].value_score
        IN  /\ v = r.PTS * r.career_length + r.REB * r.career_length
                     + r.AST * r.career_length
            /\ NonNegativeInputs(r) => v >= 0
            /\ r.career_length = 0 => v = 0

C1_Witness ==
    \E i \in DOMAIN MetricRows :
        /\ cleaned[i].PTS = 20 /\ cleaned[i].REB = 5 /\ cleaned[i].AST = 5
        /\ cleaned[i].career_length = 10
        /\ MetricRows[i].value_score = 300

\* C2: draft_value_ratio is non-null exactly when DRAFT_NUMBER is present and
\* > 0, and then it is value_score / DRAFT_NUMBER; an undrafted row and a row
\* with a non-positive draft number have no ratio.
C2_DraftValueRatio ==
    \A i \in DOMAIN MetricRows :
        LET r == MetricRows[i]
            d == r.DRAFT_NUMBER
        IN  /\ notna(r.draft_value_ratio) <=> (notna(d) /\ d.num > 0)
            /\ notna(r.draft_value_ratio) =>
                  /\ d.den = 1
                  /\ IsQuotient(r.draft_value_ratio, r.value_score, d.num)

C2_Witness ==
    \E i \in DOMAIN MetricRows :
        /\ MetricRows[i].DRAFT_NUMBER = F(5)
        /\ MetricRows[i].value_score = 300
        /\ MetricRows[i].draft_value_ratio = F(60)

\* C3: roi_per_season is non-null exactly when career_length > 0 and
\* DRAFT_NUMBER is present, and then it is
\* value_score / (career_length * DRAFT_NUMBER).
C3_RoiPerSeason ==
    \A i \in DOMAIN df_enhanced :
        LET r == df_enhanced[i]
            d == r.DRAFT_NUMBER
        IN  /\ notna(r.roi_per_season) <=> (r.career_length > 0 /\ notna(d))
            /\ notna(r.roi_per_season) =>
                  IsQuotient(r.roi_per_season, r.value_score * d.den,
                             r.career_length * d.num)

\* C4: no nullable metric is computed with a zero or undefined denominator:
\* a non-null draft_value_ratio has a present, non-zero DRAFT_NUMBER, a
\* non-null roi_per_season has career_length * DRAFT_NUMBER defined and
\* non-zero, a non-null efficiency_score has a non-zero expected_value; and
\* each of the three is null when its precondition fails.
C4_NoZeroDenominator ==
    \A i \in DOMAIN df_enhanced :
        LET r == df_enhanced[i]
            d == r.DRAFT_NUMBER
        IN  /\ notna(r.draft_value_ratio) => (notna(d) /\ d.num # 0)
            /\ notna(r.roi_per_season) =>
                  (notna(d) /\ r.career_length * d.num # 0)
            /\ notna(r.efficiency_score) =>
                  (notna(r.expected_value) /\ r.expected_value.num # 0)
            /\ ~(notna(d) /\ d.num > 0) => isna(r.draft_value_ratio)
            /\ ~(r.career_length > 0 /\ notna(d)) => isna(r.roi_per_season)
            /\ ~FGt(r.expected_value, F(0)) => isna(r.efficiency_score)

\* C5: expected_value is 100 - DRAFT_NUMBER for a drafted row and 0 for an
\* undrafted one; efficiency_score is value_score / expected_value when
\* expected_value > 0 and null otherwise; with non-negative inputs it is
\* never negative and never infinite; it is null for a draft number >= 100
\* and for an undrafted row.
C5_EfficiencyScore ==
    \A i \in DOMAIN df_enhanced :
        LET r == df_enhanced[i]
            d == r.DRAFT_NUMBER
            e == r.expected_value
            s == r.efficiency_score
        IN  /\ notna(d) => (IsFinite(e) /\ e.den = 1 /\ e.num + d.num = BaselinePick)
            /\ isna(d) => e = F(0)
            /\ e.num > 0 => IsQuotient(s, r.value_score, e.num)
            /\ e.num <= 0 => isna(s)
            /\ NonNegativeInputs(r) => (~IsNegative(s) /\ ~IsInf(s))
            /\ (notna(d) /\ d.num >= BaselinePick) => isna(s)
            /\ isna(d) => isna(s)

C5_Witness ==
    \E i \in DOMAIN df_enhanced :
        /\ df_enhanced[i].DRAFT_NUMBER = F(100)
        /\ df_enhanced[i].value_score > 0
        /\ df_enhanced[i].expected_value = F(0)
        /\ isna(df_enhanced[i].efficiency_score)

\* C6: draft_category is a total, exclusive mapping of DRAFT_NUMBER: null is
\* Undrafted, <= 5 is Lottery (1-5), 6..14 is Lottery (6-14), 15..30 is
\* First Round (15-30), > 30 is Second Round (31+).
C6_DraftCategory ==
    \A i \in DOMAIN df_enhanced :
        LET d == df_enhanced[i].DRAFT_NUMBER
            c == df_enhanced[i].draft_category
        IN  /\ c \in {"Undrafted", "Lottery (1-5)", "Lottery (6-14)",
                      "First Round (15-30)", "Second Round (31+)"}
            /\ c = "Undrafted" <=> isna(d)
            /\ c = "Lottery (1-5)" <=> (notna(d) /\ d.num <= 5)
            /\ c = "Lottery (6-14)" <=> (notna(d) /\ 6 <= d.num /\ d.num <= 14)
            /\ c = "First Round (15-30)" <=> (notna(d) /\ 15 <= d.num /\ d.num <= 30)
            /\ c = "Second Round (31+)" <=> (notna(d) /\ d.num > 30)

C6_Witness ==
    \E i \in DOMAIN df_enhanced :
        /\ df_enhanced[i].DRAFT_NUMBER = F(5)
        /\ df_enhanced[i].draft_category = "Lottery (1-5)"

\* C7: quality_tier is a total, exclusive mapping of value_score: >= 200 is
\* Elite, 100..199 High Quality, 50..99 Solid Contributor, 20..49 Role
\* Player, < 20 Limited Impact; 20, 50, 100 and 200 fall in the upper tier.
C7_QualityTier ==
    \A i \in DOMAIN df_enhanced :
        LET v == df_enhanced[i].value_score
            q == df_enhanced[i].quality_tier
        IN  /\ q \in {"Elite (200+)", "High Quality (100-199)",
                      "Solid Contributor (50-99)", "Role Player (20-49)",
                      "Limited Impact (0-19)"}
            /\ q = "Elite (200+)" <=> v >= 200
            /\ q = "High Quality (100-199)" <=> (100 <= v /\ v <= 199)
            /\ q = "Solid Contributor (50-99)" <=> (50 <= v /\ v <= 99)
            /\ q = "Role Player (20-49)" <=> (20 <= v /\ v <= 49)
            /\ q = "Limited Impact (0-19)" <=> v < 20

C7_Witness ==
    \E i \in DOMAIN df_enhanced :
        /\ df_enhanced[i].value_score = 200
        /\ df_enhanced[i].quality_tier = "Elite (200+)"

\* the input rows with a draft number and team name t
DraftedRowsOf(t) ==
    {i \in DOMAIN cleaned : notna(cleaned[i].DRAFT_NUMBER) /\ cleaned[i].TEAM_NAME = t}

\* C8: for every team of the aggregate, total_picks is the number of input
\* rows with a non-null DRAFT_NUMBER and that TEAM_NAME.
C8_TotalPicks ==
    \A t \in DOMAIN team_stats :
        team_stats[t].total_picks = Cardinality(DraftedRowsOf(t))

\* C9: for every team of the aggregate, quality_pick_rate is
\* 100 * quality_picks / total_picks rounded to one decimal and lies in
\* [0, 100], quality_picks being the number of the team's drafted players
\* with value_score >= 50; the same for elite_pick_rate with >= 200.
C9_PickRates ==
    \A t \in DOMAIN team_stats :
        LET s == team_stats[t]
            value(i) == ValueScore(cleaned[i])
        IN  /\ s.quality_picks = Cardinality({i \in DraftedRowsOf(t) : value(i) >= 50})
            /\ s.elite_picks = Cardinality({i \in DraftedRowsOf(t) : value(i) >= 200})
            /\ s.quality_pick_rate
                  = Round(FDiv(F(100 * s.quality_picks), F(s.total_picks)), 1)
            /\ s.elite_pick_rate
                  = Round(FDiv(F(100 * s.elite_picks), F(s.total_picks)), 1)
            /\ FGe(s.quality_pick_rate, F(0)) /\ FLe(s.quality_pick_rate, F(100))
            /\ FGe(s.elite_pick_rate, F(0)) /\ FLe(s.elite_pick_rate, F(100))

\* C10: the qualified table returned by the aggregator, and the one saved,
\* holds exactly the teams with total_picks >= 10: none with fewer, and none
\* with 10 or more is missing.
C10_QualifiedTeams ==
    /\ \A t \in DOMAIN qualified_teams :
          /\ t \in DOMAIN team_stats
          /\ qualified_teams[t] = team_stats[t]
          /\ team_stats[t].total_picks >= 10
    /\ \A t \in DOMAIN team_stats :
          team_stats[t].total_picks >= 10 => t \in DOMAIN qualified_teams
    /\ report_file.exists =>
          /\ \A t \in DOMAIN report_file.rows :
                t \in DOMAIN team_stats /\ team_stats[t].total_picks >= 10
          /\ \A t \in DOMAIN team_stats :
                team_stats[t].total_picks >= 10 => t \in DOMAIN report_file.rows

C10_Witness ==
    /\ report_file.exists
    /\ "Hawks" \in DOMAIN report_file.rows
    /\ team_stats["Hawks"].total_picks = 10
    /\ "Celtics" \in DOMAIN team_stats
    /\ "Celtics" \notin DOMAIN report_file.rows

\* the team script has run analyze_team_draft_efficiency and got a result
Analyzed == pc \in {"analyzed", "reported", "done"}

C12_LateRoundGems ==
    \A t \in DOMAIN team_stats :
        /\ team_stats[t].late_round_gems =
              Cardinality({i \in DraftedRowsOf(t) :
                  cleaned[i].DRAFT_NUMBER.num > 15 /\ ValueScore(cleaned[i]) >= 100})
        /\ (\A i \in DraftedRowsOf(t) :
                cleaned[i].DRAFT_NUMBER.num <= 15 \/ ValueScore(cleaned[i]) <= 99)
              => team_stats[t].late_round_gems = 0

C12_Witness ==
    /\ Analyzed
    /\ "Hawks" \in DOMAIN team_stats
    /\ team_stats["Hawks"].late_round_gems = 1
    /\ \E i \in DraftedRowsOf("Hawks") :
          cleaned[i].DRAFT_NUMBER = F(15) /\ ValueScore(cleaned[i]) = 100
    /\ \E i \in DraftedRowsOf("Hawks") :
          cleaned[i].DRAFT_NUMBER = F(16) /\ ValueScore(cleaned[i]) = 200

HasDraftNumber(r) == r.DRAFT_NUMBER # NaN

\* the team table the pipeline computes from an input table
TeamTableOf(input) ==
    analyze_team_draft_efficiency(
        calculate_per_season_roi(calculate_value_metrics(input))).team_stats

\* C13: a row with a null DRAFT_NUMBER has null draft_value_ratio,
\* roi_per_season and efficiency_score and the category Undrafted, and it
\* adds to no team aggregate: the team table is the one of the input without
\* its undrafted rows, and a team has a row only if it has a drafted player.
C13_UndraftedExcluded ==
    /\ \A i \in DOMAIN df_enhanced :
          isna(df_enhanced[i].DRAFT_NUMBER) =>
              /\ isna(df_enhanced[i].draft_value_ratio)
              /\ isna(df_enhanced[i].roi_per_season)
              /\ isna(df_enhanced[i].efficiency_score)
              /\ df_enhanced[i].draft_category = "Undrafted"
    /\ Analyzed =>
          /\ team_stats = TeamTableOf(SelectSeq(cleaned, HasDraftNumber))
          /\ \A t \in DOMAIN team_stats : DraftedRowsOf(t) # {}

C13_Witness ==
    /\ Analyzed
    /\ DOMAIN team_stats = {"Celtics"}
    /\ \E i \in DOMAIN df_enhanced :
          /\ df_enhanced[i].TEAM_NAME = "Hawks"
          /\ isna(df_enhanced[i].DRAFT_NUMBER)
          /\ df_enhanced[i].value_score = 200
          /\ isna(df_enhanced[i].efficiency_score)
          /\ df_enhanced[i].draft_category = "Undrafted"

\* no row of the input has a draft number
NoDraftedRecord == \A i \in DOMAIN cleaned : isna(cleaned[i].DRAFT_NUMBER)

\* C14: when no record of the input is drafted (all columns present), the
\* run of the team script finishes as 'no data': it never ends in main's
\* except clause and no exception is reported.
C14_NoDataNoError ==
    (missing = {} /\ NoDraftedRecord /\ df_enhanced # <<>>) =>
        (pc # "failed" /\ error.kind # "TypeError")

\* C15: when drafted records exist but no team reaches 10 picks, the report
\* short-circuits: generate_draft_efficiency_report does not index into the
\* empty ranked table and the run does not fail.
C15_ReportShortCircuits ==
    (drafted # <<>> /\ DOMAIN qualified_teams = {}) =>
        (error.kind # "IndexError" /\ pc # "failed")

\* C16: when required columns are absent, the pipeline aborts with an error
\* that names every missing column, and it computes and writes nothing.
C16_AbortsNamingAll ==
    missing # {} =>
        /\ pc \in {"start", "failed"}
        /\ (pc = "failed" /\ error.kind # "FileNotFoundError")
               => (error.kind = "KeyError" /\ error.names = missing)
        /\ ~metrics_file.exists
        /\ ~report_file.exists
        /\ df_enhanced = <<>>

IsRoundedRate(rate, picks, total) ==
    IF total = 0
    THEN rate = (IF picks > 0 THEN PosInf ELSE NaN)
    ELSE /\ IsFinite(rate)
         /\ 10 % rate.den = 0
         /\ 20 * Abs(rate.num * total - 100 * picks * rate.den) <= rate.den * total

ValueOf == [i \in DOMAIN cleaned |-> ValueScore(cleaned[i])]

RECURSIVE SumOver(_, _)
SumOver(f, idx) ==
    IF idx = {} THEN 0
    ELSE LET i == CHOOSE j \in idx : TRUE IN f[i] + SumOver(f, idx \ {i})

SquaresOf(f) == [i \in DOMAIN f |-> f[i] * f[i]]

\* n^2 times the population variance of f over idx (n the size of idx)
Spread(f, idx) ==
    Cardinality(idx) * SumOver(SquaresOf(f), idx) - SumOver(f, idx) * SumOver(f, idx)

EnhancedRowsOf(t) ==
    {i \in DOMAIN df_enhanced :
        notna(df_enhanced[i].DRAFT_NUMBER) /\ df_enhanced[i].TEAM_NAME = t}

\* avg is the mean, to three decimals, of the cells of col over idx that are
\* not null, and null when there is none
IsMeanOfNonNull(avg, col, idx) ==
    LET nn == {i \in idx : col[i] # NaN}
    IN  IF nn = {} THEN avg = NaN
        ELSE avg = Round(FDiv(FSum(col, nn), F(Cardinality(nn))), 3)

\* med is, to three decimals, the midpoint of a lower and an upper middle
\* cell of the cells of col over idx that are not null, and null when there
\* is none
IsMedianOfNonNull(med, col, idx) ==
    LET nn == {i \in idx : col[i] # NaN}
        n == Cardinality(nn)
        Below(x) == Cardinality({i \in nn : FGt(x, col[i])})
        UpTo(x) == Cardinality({i \in nn : FGe(x, col[i])})
    IN  IF nn = {} THEN med = NaN
        ELSE \E lo, hi \in {col[i] : i \in nn} :
                /\ Below(lo) <= (n - 1) \div 2
                /\ UpTo(lo) >= (n + 1) \div 2
                /\ Below(hi) <= n \div 2
                /\ UpTo(hi) >= n \div 2 + 1
                /\ med = Round(FDiv(FAdd(lo, hi), F(2)), 3)

\* C20: the mean and the median of roi_per_season and of efficiency_score
\* of a team are taken over the team's drafted rows whose value is not null;
\* a null value is left out, never counted as zero.
C20_NullsSkipped ==
    Analyzed =>
        \A t \in DOMAIN team_stats :
            /\ IsMeanOfNonNull(team_stats[t].avg_roi_per_season,
                               RoiColumn(df_enhanced), EnhancedRowsOf(t))
            /\ IsMedianOfNonNull(team_stats[t].median_roi_per_season,
                                 RoiColumn(df_enhanced), EnhancedRowsOf(t))
            /\ IsMeanOfNonNull(team_stats[t].avg_efficiency,
                               EfficiencyColumn(df_enhanced), EnhancedRowsOf(t))
            /\ IsMedianOfNonNull(team_stats[t].median_efficiency,
                                 EfficiencyColumn(df_enhanced), EnhancedRowsOf(t))

C20_Witness ==
    /\ Analyzed
    /\ Cardinality(EnhancedRowsOf("Hawks")) = 2
    /\ \E i \in EnhancedRowsOf("Hawks") :
          /\ isna(df_enhanced[i].roi_per_season)
          /\ isna(df_enhanced[i].efficiency_score)
    /\ team_stats["Hawks"].avg_roi_per_season = Norm(5, 4)
    /\ team_stats["Hawks"].median_roi_per_season = Norm(5, 4)
    /\ team_stats["Hawks"].avg_efficiency = Norm(2381, 1000)
    /\ team_stats["Hawks"].median_efficiency = Norm(2381, 1000)

\* C27: in every team aggregate 0 <= elite_picks <= quality_picks <=
\* total_picks, 0 <= late_round_gems <= quality_picks and total_picks >= 1.
C27_CountOrdering ==
    \A t \in DOMAIN team_stats :
        /\ 0 <= team_stats[t].elite_picks
        /\ team_stats[t].elite_picks <= team_stats[t].quality_picks
        /\ team_stats[t].quality_picks <= team_stats[t].total_picks
        /\ 0 <= team_stats[t].late_round_gems
        /\ team_stats[t].late_round_gems <= team_stats[t].quality_picks
        /\ team_stats[t].total_picks >= 1

\* row i of the enhanced table adds one to the total_picks of its team
CountedInTotalPicks(i) ==
    /\ notna(df_enhanced[i].DRAFT_NUMBER)
    /\ df_enhanced[i].TEAM_NAME \in DOMAIN team_stats
    /\ df_enhanced[i].PLAYER_FIRST_NAME # NA

\* C28: the players counted in some team's total_picks are exactly the
\* players with a non-null draft_value_ratio.
C28_SamePopulation ==
    Analyzed =>
        \A i \in DOMAIN df_enhanced :
            CountedInTotalPicks(i) <=> notna(df_enhanced[i].draft_value_ratio)

\* the draft years of the drafted rows of team t that have one
DraftYearsOf(t) ==
    {cleaned[i].DRAFT_YEAR : i \in DraftedRowsOf(t)} \ {NaN}

\* C24 (as claimed): first_draft_year and last_draft_year are the minimum and
\* the maximum DRAFT_YEAR of the team's drafted players, draft_span_years is
\* last - first + 1, and it is at least 1 for every team aggregate.
C24_DraftSpanAtLeastOne ==
    \A t \in DOMAIN team_stats :
        /\ team_stats[t].first_draft_year \in DraftYearsOf(t)
        /\ team_stats[t].last_draft_year \in DraftYearsOf(t)
        /\ FGe(team_stats[t].draft_span_years, F(1))

\* C24 (amended): first_draft_year and last_draft_year are the minimum and
\* the maximum of the DRAFT_YEAR values that are not null among the team's
\* drafted rows, and draft_span_years is last - first + 1, at least 1; a team
\* none of whose drafted rows has a DRAFT_YEAR has all three null.
C24_DraftYears ==
    \A t \in DOMAIN team_stats :
        IF DraftYearsOf(t) = {}
        THEN /\ isna(team_stats[t].first_draft_year)
             /\ isna(team_stats[t].last_draft_year)
             /\ isna(team_stats[t].draft_span_years)
        ELSE /\ team_stats[t].first_draft_year \in DraftYearsOf(t)
             /\ team_stats[t].last_draft_year \in DraftYearsOf(t)
             /\ \A y \in DraftYearsOf(t) :
                   /\ team_stats[t].first_draft_year.num <= y.num
                   /\ y.num <= team_stats[t].last_draft_year.num
             /\ team_stats[t].draft_span_years =
                   F(team_stats[t].last_draft_year.num
                       - team_stats[t].first_draft_year.num + 1)
             /\ team_stats[t].draft_span_years.num >= 1

C24_Witness ==
    /\ Analyzed
    /\ DOMAIN team_stats = {"Hawks", "Celtics"}
    /\ team_stats["Hawks"].first_draft_year = F(2003)
    /\ team_stats["Hawks"].last_draft_year = F(2010)
    /\ team_stats["Hawks"].draft_span_years = F(8)
    /\ \E i \in DOMAIN cleaned :
          /\ cleaned[i].TEAM_NAME = "Hawks"
          /\ isna(cleaned[i].DRAFT_NUMBER)
          /\ cleaned[i].DRAFT_YEAR = F(1990)
    /\ isna(team_stats["Celtics"].draft_span_years)

\* the table df with its rows i and j exchanged
Swap(df, i, j) ==
    [k \in DOMAIN df |-> IF k = i THEN df[j] ELSE IF k = j THEN df[i] ELSE df[k]]

C26_ShareWithoutZeroDivision ==
    printed.kind = "dashboard" =>
        /\ error.kind # "ZeroDivisionError"
        /\ printed.total = 0 => printed.share = F(0)

\* C29: the dashboard's enhanced table has, row by row, the roi_per_season,
\* draft_category and quality_tier that the team module computes from the
\* same metrics file
C29_SameEnhancedFields ==
    printed.kind = "dashboard" =>
        LET team == calculate_per_season_roi(metrics_file.rows)
            shown == printed.df_enhanced
        IN  /\ DOMAIN shown = DOMAIN team
            /\ \A i \in DOMAIN shown :
                  /\ shown[i].roi_per_season = team[i].roi_per_season
                  /\ shown[i].draft_category = team[i].draft_category
                  /\ shown[i].quality_tier = team[i].quality_tier

C29_Witness ==
    /\ printed.kind = "dashboard"
    /\ \E i, j, k \in DOMAIN printed.df_enhanced :
          /\ printed.df_enhanced[i].DRAFT_NUMBER = F(0)
          /\ isna(printed.df_enhanced[i].roi_per_season)
          /\ IsFinite(printed.df_enhanced[j].roi_per_season)
          /\ printed.df_enhanced[j].quality_tier = "Solid Contributor (50-99)"
          /\ printed.df_enhanced[k].draft_category = "Undrafted"
          /\ isna(printed.df_enhanced[k].roi_per_season)

\* the rows of the saved metrics table that have a draft_value_ratio
RatioRows == {i \in DOMAIN metrics_file.rows :
                 notna(metrics_file.rows[i].draft_value_ratio)}

\* the rows of RatioRows whose ratio is below, or above, the threshold t
RatiosBelow(t) == {i \in RatioRows : ~FGe(metrics_file.rows[i].draft_value_ratio, t)}
RatiosAbove(t) == {i \in RatioRows : FGt(metrics_file.rows[i].draft_value_ratio, t)}

\* C21: the steals printed by the value-metrics run are exactly the rows with
\* a draft_value_ratio, DRAFT_NUMBER >= 30 and a ratio at or above the 80th
\* percentile, the busts exactly those with DRAFT_NUMBER <= 10 and a ratio at
\* or below the 20th percentile; both percentiles are taken over all the rows
\* with a ratio: of their n ratios fewer than 0.8 (n - 1) + 1 lie below the
\* 80th percentile and fewer than 0.2 (n - 1) + 1 above it, and the reverse
\* for the 20th
C21_StealsAndBusts ==
    (printed.kind = "value_metrics" /\ RatioRows # {}) =>
        LET rows == metrics_file.rows
            n == Cardinality(RatioRows)
            p80 == Quantile(RatioColumn(rows), RatioRows, 4, 5)
            p20 == Quantile(RatioColumn(rows), RatioRows, 1, 5)
        IN  /\ 5 * Cardinality(RatiosBelow(p80)) < 4 * (n - 1) + 5
            /\ 5 * Cardinality(RatiosAbove(p80)) < (n - 1) + 5
            /\ 5 * Cardinality(RatiosBelow(p20)) < (n - 1) + 5
            /\ 5 * Cardinality(RatiosAbove(p20)) < 4 * (n - 1) + 5
            /\ printed.steals =
                  {i \in RatioRows : /\ FGe(rows[i].DRAFT_NUMBER, F(30))
                                     /\ FGe(rows[i].draft_value_ratio, p80)}
            /\ printed.busts =
                  {i \in RatioRows : /\ FLe(rows[i].DRAFT_NUMBER, F(10))
                                     /\ FLe(rows[i].draft_value_ratio, p20)}

\* steals and busts are found, and a late pick and an early pick are left out
C21_Witness ==
    /\ printed.kind = "value_metrics"
    /\ printed.steals # {}
    /\ printed.busts # {}
    /\ \E i \in RatioRows \ printed.steals :
          FGe(metrics_file.rows[i].DRAFT_NUMBER, F(30))
    /\ \E i \in RatioRows \ printed.busts :
          FLe(metrics_file.rows[i].DRAFT_NUMBER, F(10))

\* row i of the column col is ranked ahead of row j: a larger cell (a smaller
\* one in an ascending view), a cell against a null, or the earlier row of two
\* equal cells
Ahead(col, i, j, ascending) ==
    \/ IF ascending THEN FGt(col[j], col[i]) ELSE FGt(col[i], col[j])
    \/ notna(col[i]) /\ isna(col[j])
    \/ col[i] = col[j] /\ i < j

\* view lists min(n, number of rows) rows of idx, every listed row ahead of
\* the rows listed after it and of the rows left out
IsRanked(view, n, col, idx, ascending) ==
    /\ Len(view) = IF Cardinality(idx) < n THEN Cardinality(idx) ELSE n
    /\ \A k \in DOMAIN view : view[k] \in idx
    /\ \A k, l \in DOMAIN view : k < l => Ahead(col, view[k], view[l], ascending)
    /\ \A k \in DOMAIN view :
          \A j \in idx \ {view[l] : l \in DOMAIN view} :
              Ahead(col, view[k], j, ascending)

Augments(wide, narrow, added) ==
    /\ DOMAIN wide = DOMAIN narrow
    /\ \A i \in DOMAIN narrow :
          /\ \A column \in DOMAIN narrow[i] : wide[i][column] = narrow[i][column]
          /\ added \cap DOMAIN narrow[i] = {}
          /\ added \subseteq DOMAIN wide[i]

\* C25: calculate_value_metrics, calculate_per_season_roi,
\* analyze_team_draft_efficiency and the report leave the table passed to
\* them as it was, no column added and no cell changed; the metrics and the
\* enhanced table are new tables with the added columns
C25_StepLeavesInput ==
    /\ (pc' = "metrics" /\ printed'.kind = "value_metrics") =>
          /\ df_loaded' = cleaned
          /\ Augments(metrics_file'.rows, df_loaded',
                      {"value_score", "draft_value_ratio"})
    /\ pc' = "enhanced" =>
          /\ df_loaded' = metrics_file.rows
          /\ Augments(df_enhanced', df_loaded',
                      {"roi_per_season", "efficiency_score", "draft_category",
                       "quality_tier"})
    /\ pc = "enhanced" => df_enhanced' = df_enhanced
    /\ pc = "analyzed" => (qualified_teams' = qualified_teams /\ drafted' = drafted)

C30_StepNeedsInput ==
    /\ pc' = "metrics" => cleaned_exists
    /\ pc' \in {"enhanced", "dashboard"} => metrics_file.exists
    /\ metrics_file' # metrics_file => cleaned_exists
    /\ report_file' # report_file => metrics_file.exists
    /\ (pc = "start" /\ pc' # "start" /\ ~cleaned_exists) =>
          /\ pc' = "failed"
          /\ error'.kind = "FileNotFoundError"
          /\ error'.names \in {{"NBAStats_cleaned.csv"},
                               {"NBAStats_with_value_metrics.csv"}}
          /\ UNCHANGED <<cleaned_exists, metrics_file, report_file>>
    /\ (pc' = "failed" /\ error'.kind = "FileNotFoundError") =>
          /\ "NBAStats_cleaned.csv" \in error'.names => ~cleaned_exists
          /\ "NBAStats_with_value_metrics.csv" \in error'.names
                 => ~metrics_file.exists
          /\ UNCHANGED <<cleaned_exists, metrics_file, report_file>>

\* C30: in any order of the runs, the report file exists only if the metrics
\* file does, and the metrics file only if the cleaned file does; a stage
\* started without its input file reports that file and writes nothing
C30_OutputNeedsInput ==
    /\ [](/\ report_file.exists => metrics_file.exists
          /\ metrics_file.exists => cleaned_exists)
    /\ [][C30_StepNeedsInput]_vars

\* the team stage was started after cleaning and before any metrics run
C30_Witness ==
    /\ pc = "failed"
    /\ error = FileNotFoundError("NBAStats_with_value_metrics.csv")
    /\ cleaned_exists
    /\ ~metrics_file.exists
    /\ ~report_file.exists

=============================================================================
